---- MODULE Spec2Model ----
(***************************************************************************)
(* Upload intake lambdas of hsreplaynet: lambdas/uploads.py (Redis as the  *)
(* preferred descriptor store, S3 fallback under raw/<ts>/) and            *)
(* lambdas/uploaders.py (Postgres as the preferred store, S3 fallback      *)
(* under descriptors/, FORCE_S3 switch).  Each invocation of               *)
(* generate_log_upload_address_handler is a process; the two stores, the   *)
(* clock and the deployment configuration are shared.                      *)
(***************************************************************************)
EXTENDS Integers, Sequences, FiniteSets, TLC

\* ---------------------------------------------------------------- bounds
NumIds == 2
MaxClock == 2

Invocations == {1, 2}       \* the concurrent invocations of the handler
Ids == 1..NumIds            \* values shortuuid.uuid() can return
Clock == 0..MaxClock        \* wall clock, in half minutes

\* ------------------------------------------------------ program constants
PERCENT_CANARY_UPLOADS == 25
LOG_PUT_EXPIRATION == 86400
RAW_UPLOADS_BUCKET == "hsreplaynet-uploads"
DESCRIPTORS_BUCKET == "hsreplaynet-descriptors"

\* ------------------------------------------------------- python helpers
\* a slip of line 121: event["body"] read, not popped
DictPop_Keep(d, k) == d
\* dict.pop(k) / dict without k; dicts are functions on their keys
DictPop(d, k) == [x \in DOMAIN d \ {k} |-> d[x]]
\* d[k] = v on a dict
DictSet(d, k, v) == [x \in DOMAIN d \cup {k} |-> IF x = k THEN v ELSE d[x]]
EmptyDict == [x \in {} |-> TRUE]

\* strings that are split are sequences of one-character strings
IsSpace(c) == c \in {" ", "\t", "\n"}

\* str.split(): the maximal runs of non-whitespace characters, in order
RECURSIVE SplitFrom(_, _, _)
SplitFrom(s, i, word) ==
    IF i > Len(s)
    THEN IF word = <<>> THEN <<>> ELSE <<word>>
    ELSE IF IsSpace(s[i])
         THEN IF word = <<>>
              THEN SplitFrom(s, i + 1, <<>>)
              ELSE <<word>> \o SplitFrom(s, i + 1, <<>>)
         ELSE SplitFrom(s, i + 1, Append(word, s[i]))
Split(s) == SplitFrom(s, 1, <<>>)

\* a slip of line 92: the names are compared as they come
Lower_Identity(k) == k
\* str.lower() on the header names that occur
Lower(k) ==
    CASE k = "Authorization" -> "authorization"
      [] k = "AUTHORIZATION" -> "authorization"
      [] k = "X-Forwarded-For" -> "x-forwarded-for"
      [] OTHER -> k

\* {k.lower(): v for k, v in headers.items()}: headers is the ordered list
\* of (name, value) pairs of the dict; a later pair with the same lowered
\* name replaces the earlier one
RECURSIVE LowercaseHeaders(_)
LowercaseHeaders(headers) ==
    IF headers = <<>>
    THEN EmptyDict
    ELSE LET n == Len(headers)
             rest == LowercaseHeaders(SubSeq(headers, 1, n - 1))
         IN  DictSet(rest, Lower(headers[n][1]), headers[n][2])

\* exceptions: the class raised and its message
Exc(type, msg) == [type |-> type, msg |-> msg]
NoExc == Exc("", "")

\* get_auth_token(headers): [ok, value | exc]
get_auth_token(headers) ==
    LET lowercase_headers == LowercaseHeaders(headers)
    IN  IF "authorization" \notin DOMAIN lowercase_headers
        THEN [ok |-> FALSE, value |-> <<>>,
              exc |-> Exc("Exception", "The Authorization Header is required.")]
        ELSE LET auth_components == Split(lowercase_headers["authorization"])
             IN  IF Len(auth_components) # 2
                 THEN [ok |-> FALSE, value |-> <<>>,
                       exc |-> Exc("Exception",
                           "Authorization header must have a scheme and a token.")]
                 ELSE [ok |-> TRUE, value |-> auth_components[2], exc |-> NoExc]

\* ------------------------------------------------------------ the body
\* event["body"]: what base64.b64decode, bytes.decode("utf8") and json.loads
\* make of it.  b64/utf8/json say whether each stage accepts its input;
\* value is the decoded JSON value, [type, items].
Body(b64, utf8, json, value) ==
    [b64 |-> b64, utf8 |-> utf8, json |-> json, value |-> value]
JsonDict(items) == [type |-> "dict", items |-> items]
JsonList == [type |-> "list", items |-> EmptyDict]
NoValue == [type |-> "none", items |-> EmptyDict]

\* base64.b64decode(body) then body.decode("utf8") then json.loads(...)
json_loads_b64(body) ==
    IF ~body.b64
    THEN [ok |-> FALSE, value |-> NoValue,
          exc |-> Exc("binascii.Error", "Incorrect padding")]
    ELSE IF ~body.utf8
    THEN [ok |-> FALSE, value |-> NoValue,
          exc |-> Exc("UnicodeDecodeError", "invalid start byte")]
    ELSE IF ~body.json
    THEN [ok |-> FALSE, value |-> NoValue,
          exc |-> Exc("json.JSONDecodeError", "Expecting value")]
    ELSE [ok |-> TRUE, value |-> body.value, exc |-> NoExc]

\* a slip of isinstance(): any JSON value passes for an object
IsDict_Any(value) == value.type # "none"
\* isinstance(upload_metadata, dict)
IsDict(value) == value.type = "dict"

\* lines 120-125 of uploaders.py, 111-115 of uploads.py: pop the body off
\* the event, decode it, require a JSON object
decode_metadata(ev) ==
    IF "body" \notin DOMAIN ev
    THEN [ok |-> FALSE, value |-> NoValue, exc |-> Exc("KeyError", "body")]
    ELSE LET loaded == json_loads_b64(ev["body"])
         IN  IF ~loaded.ok
             THEN loaded
             ELSE IF ~IsDict(loaded.value)
             THEN [ok |-> FALSE, value |-> NoValue,
                   exc |-> Exc("Exception", "Meta data is not a valid JSON dictionary.")]
             ELSE loaded

\* a slip of line 132: the field is written whatever is_canary is
mark_canary_Always(upload_metadata, canary) ==
    JsonDict(DictSet(upload_metadata.items, "canary", canary))
\* if is_canary: upload_metadata["canary"] = is_canary
mark_canary(upload_metadata, canary) ==
    IF canary
    THEN JsonDict(DictSet(upload_metadata.items, "canary", canary))
    ELSE upload_metadata

\* ---------------------------------------------------------- the canary
DiceRolls == {0, 24, 25, 99}      \* samples of random.randrange(0, 100)

\* the first test of is_canary_upload: the query carries a canary parameter
HasCanaryQuery(ev) ==
    /\ DOMAIN ev # {}
    /\ "query" \in DOMAIN ev
    /\ "canary" \in DOMAIN ev["query"]

\* the calls of random.randrange is_canary_upload(event) makes: line 70
\* returns before the draw of line 72
dice_rolls_drawn(ev) == IF HasCanaryQuery(ev) THEN 0 ELSE 1
\* every value random.randrange(0, 100) can return
DiceRange == 0..99

\* a slip of line 73: <= for <
is_canary_upload_Le(ev, dice_roll) ==
    IF HasCanaryQuery(ev)
    THEN TRUE
    ELSE dice_roll <= PERCENT_CANARY_UPLOADS
\* is_canary_upload(event) when random.randrange(0, 100) returns dice_roll
is_canary_upload(ev, dice_roll) ==
    IF HasCanaryQuery(ev)
    THEN TRUE
    ELSE dice_roll < PERCENT_CANARY_UPLOADS

\* ------------------------------------------------------------ the clock
\* datetime.now().strftime("%Y/%m/%d/%H/%M"): the minute of the clock
\* reading t, which counts half minutes
get_timestamp(t) == ToString(t \div 2)
NoTimestamp == ""

\* ------------------------------------------------------------ the keys
\* Object keys are the pieces of the formatted string, cut at every "/" and
\* "." of the format; ids hold neither character.  "%s" % shortid is the
\* text of the id.
get_upload_url(id) == <<"https://hsreplay.net/uploads/upload/", ToString(id), "/">>

\* a slip of the format: the short id is left out of the key
DescriptorKeyRaw_NoId(ts, id) ==
    <<"raw", "/", ts, "/", "descriptor", ".", "json">>
\* a slip of the format: the descriptor under the payload's suffix
DescriptorKeyRaw_Log(ts, id) ==
    <<"raw", "/", ts, "/", ToString(id), ".", "power", ".", "log">>
\* "raw/%s/%s.descriptor.json" % (ts_path, shortid), uploads.py
DescriptorKeyRaw(ts, id) ==
    <<"raw", "/", ts, "/", ToString(id), ".", "descriptor", ".", "json">>
\* a slip of the format: one key for every descriptor
DescriptorKeyFlat_Shared(id) == <<"descriptors", "/", "descriptor", ".", "json">>
\* "descriptors/%s.json" % shortid, uploaders.py
DescriptorKeyFlat(id) == <<"descriptors", "/", ToString(id), ".", "json">>

\* a slip of line 143/145: the two suffixes the other way round
log_key_suffix_Swapped(canary) ==
    IF canary THEN <<"power", ".", "log">> ELSE <<"canary", ".", "log">>
log_key_suffix(canary) ==
    IF ~canary THEN <<"power", ".", "log">> ELSE <<"canary", ".", "log">>
\* "raw/%s/%s.%s" % (ts_path, shortid, log_key_suffix)
s3_powerlog_key(ts, id, canary) ==
    <<"raw", "/", ts, "/", ToString(id), ".">> \o log_key_suffix(canary)

\* S3.generate_presigned_url("put_object", Params=..., ExpiresIn=...,
\* HttpMethod="PUT")
presigned_url(key) ==
    [scheme |-> "https", Bucket |-> RAW_UPLOADS_BUCKET, Key |-> key,
     ContentType |-> "text/plain", ExpiresIn |-> LOG_PUT_EXPIRATION,
     HttpMethod |-> "PUT"]
NoUrl ==
    [scheme |-> "", Bucket |-> "", Key |-> <<>>,
     ContentType |-> "", ExpiresIn |-> 0, HttpMethod |-> ""]

\* json.dumps(x) and str.encode("utf8")
json_dumps(x) == [json |-> x]
utf8(x) == [utf8 |-> x]

\* ----------------------------------------------------------- the events
Chars_TokenFoo == <<"T", "o", "k", "e", "n", " ", "F", "o", "o">>
Chars_Token == <<"T", "o", "k", "e", "n">>

\* the event of tests/test_uploads.py: body {}
EvTest ==
    [headers |-> << <<"authorization", Chars_TokenFoo>> >>,
     body |-> Body(TRUE, TRUE, TRUE, JsonDict(EmptyDict)),
     source_ip |-> "127.0.0.1"]
\* a canary opt-in, mixed-case header name, body {"build": 1}
EvCanary ==
    [headers |-> << <<"Authorization", Chars_TokenFoo>> >>,
     query |-> [canary |-> "1"],
     body |-> Body(TRUE, TRUE, TRUE, JsonDict([build |-> 1])),
     source_ip |-> "127.0.0.1"]
\* no Authorization header
EvNoAuth ==
    [headers |-> << <<"X-Forwarded-For", <<"1">> >> >>,
     body |-> Body(TRUE, TRUE, TRUE, JsonDict(EmptyDict)),
     source_ip |-> "127.0.0.1"]
\* an Authorization header of one component
EvBadAuth ==
    [headers |-> << <<"authorization", Chars_Token>> >>,
     body |-> Body(TRUE, TRUE, TRUE, JsonDict(EmptyDict)),
     source_ip |-> "127.0.0.1"]
\* the body of test_uploads_lambda_bad_metadata: base64 of b"bad data"
EvBadData ==
    [headers |-> << <<"authorization", Chars_TokenFoo>> >>,
     body |-> Body(TRUE, TRUE, FALSE, NoValue),
     source_ip |-> "127.0.0.1"]
\* a body that is JSON but no object: []
EvList ==
    [headers |-> << <<"authorization", Chars_TokenFoo>> >>,
     body |-> Body(TRUE, TRUE, TRUE, JsonList),
     source_ip |-> "127.0.0.1"]

Events == {EvTest, EvCanary, EvNoAuth, EvBadAuth, EvBadData, EvList}

\* a query without a canary parameter
EvQueryOther ==
    [headers |-> << <<"authorization", Chars_TokenFoo>> >>,
     query |-> [debug |-> "1"],
     body |-> Body(TRUE, TRUE, TRUE, JsonDict(EmptyDict)),
     source_ip |-> "127.0.0.1"]
\* the headers get_auth_token is called with on its own: dicts of at most
\* two names, in the order of their items()
HeaderNames == {"authorization", "Authorization", "AUTHORIZATION", "X-Forwarded-For"}
HeaderValues ==
    { Chars_TokenFoo, Chars_Token, <<>>,
      <<"T", " ", "F">>, <<"T", " ", " ", "F">>,
      <<" ", "T", "\t", "F", "\n">>, <<"T", " ", "F", " ", "G">> }
HeaderDicts ==
    {<<>>}
    \cup { << <<n, v>> >> : n \in HeaderNames, v \in HeaderValues }
    \cup { << <<n[1], v[1]>>, <<n[2], v[2]>> >> :
               n \in {m \in HeaderNames \X HeaderNames : m[1] # m[2]},
               v \in HeaderValues \X HeaderValues }

\* the events is_canary_upload is called with on its own; {} is falsy
CanaryEvents == Events \cup {EvQueryOther, [x \in {} |-> TRUE]}
NoEvent == EmptyDict

\* ------------------------------------------------------------- the state
VARIABLES
    module,            \* which lambda is deployed: "uploads" or "uploaders"
    FORCE_S3,          \* uploaders.py: os.getenv("FORCE_S3", "") == "1"
    now,               \* the wall clock
    preferred,         \* Redis (uploads) or the uploads_descriptor table
    s3,                \* S3: <<bucket, key>> -> body
    pc,                \* where each invocation stands
    request,           \* the event as the caller passed it (never mutated)
    event,             \* the event dict the caller passed (mutated in place)
    auth_token,
    shortid,
    ts_path,
    is_canary,
    upload_metadata,
    descriptor,
    s3_descriptor_key, \* the key of the invocation's fallback put_object
    put_url,           \* presigned_put_url
    result,            \* what the handler returned
    exc,               \* the exception the handler raised
    attempts,          \* calls made to each store and to the signer
    outcome,           \* how the invocation's store calls ended
    call               \* a helper function called on its own: arguments, result

config == <<module, FORCE_S3>>
stores == <<preferred, s3>>
locals == <<event, auth_token, shortid, ts_path, is_canary, upload_metadata,
            descriptor>>
effects == <<s3_descriptor_key, put_url, result, exc, attempts, outcome>>
vars == <<config, call, now, stores, pc, request, locals, effects>>

NoDescriptor == EmptyDict
NoKey == <<>>
NoResult == EmptyDict
NoAttempts == [preferred |-> 0, s3 |-> 0, presign |-> 0]
NoOutcome == [preferred |-> "", s3 |-> ""]
NoCall == [fn |-> ""]
EmptyMetadata == JsonDict(EmptyDict)

Init ==
    /\ module \in {"uploads", "uploaders"}
    /\ FORCE_S3 \in (IF module = "uploaders" THEN BOOLEAN ELSE {FALSE})
    /\ now = 0
    /\ preferred = EmptyDict
    /\ s3 = EmptyDict
    /\ pc = [i \in Invocations |-> "idle"]
    /\ request = [i \in Invocations |-> NoEvent]
    /\ event = [i \in Invocations |-> NoEvent]
    /\ auth_token = [i \in Invocations |-> <<>>]
    /\ shortid = [i \in Invocations |-> 0]
    /\ ts_path = [i \in Invocations |-> NoTimestamp]
    /\ is_canary = [i \in Invocations |-> FALSE]
    /\ upload_metadata = [i \in Invocations |-> EmptyMetadata]
    /\ descriptor = [i \in Invocations |-> NoDescriptor]
    /\ s3_descriptor_key = [i \in Invocations |-> NoKey]
    /\ put_url = [i \in Invocations |-> NoUrl]
    /\ result = [i \in Invocations |-> NoResult]
    /\ exc = [i \in Invocations |-> NoExc]
    /\ attempts = [i \in Invocations |-> NoAttempts]
    /\ outcome = [i \in Invocations |-> NoOutcome]
    /\ call = NoCall

\* raise e out of the handler
Raise(i, e) ==
    /\ pc' = [pc EXCEPT ![i] = "raised"]
    /\ exc' = [exc EXCEPT ![i] = e]

\* the clock advances
Tick ==
    /\ now < MaxClock
    /\ now' = now + 1
    /\ UNCHANGED <<config, call, request, stores, pc, locals, effects>>

\* the caller invokes generate_log_upload_address_handler(ev, context)
Invoke(i, ev) ==
    /\ pc[i] = "idle"
    /\ request' = [request EXCEPT ![i] = ev]
    /\ event' = [event EXCEPT ![i] = ev]
    /\ pc' = [pc EXCEPT ![i] = "auth"]
    /\ UNCHANGED <<config, call, now, stores, auth_token, shortid, ts_path, is_canary,
                   upload_metadata, descriptor, effects>>

\* auth_token = get_auth_token(event["headers"])
GetAuthToken(i) ==
    /\ pc[i] = "auth"
    /\ LET r == get_auth_token(event[i]["headers"])
       IN  IF r.ok
           THEN /\ auth_token' = [auth_token EXCEPT ![i] = r.value]
                /\ pc' = [pc EXCEPT ![i] = "shortid"]
                /\ exc' = exc
           ELSE /\ Raise(i, r.exc)
                /\ auth_token' = auth_token
    /\ UNCHANGED <<config, call, request, now, stores, event, shortid, ts_path, is_canary,
                   upload_metadata, descriptor, s3_descriptor_key, put_url,
                   result, attempts, outcome>>

\* shortid = get_shortid()
GetShortid(i, id) ==
    /\ pc[i] = "shortid"
    /\ shortid' = [shortid EXCEPT ![i] = id]
    /\ pc' = [pc EXCEPT ![i] = IF module = "uploads" THEN "timestamp" ELSE "canary"]
    /\ UNCHANGED <<config, call, request, now, stores, event, auth_token, ts_path, is_canary,
                   upload_metadata, descriptor, effects>>

\* uploads.py: ts_path = get_timestamp()
GetTimestamp(i) ==
    /\ pc[i] = "timestamp"
    /\ ts_path' = [ts_path EXCEPT ![i] = get_timestamp(now)]
    /\ pc' = [pc EXCEPT ![i] = "metadata"]
    /\ UNCHANGED <<config, call, request, now, stores, event, auth_token, shortid, is_canary,
                   upload_metadata, descriptor, effects>>

\* uploads.py 111-115; uploaders.py get_upload_metadata(event, is_canary)
GetUploadMetadata(i) ==
    /\ pc[i] = "metadata"
    /\ event' = [event EXCEPT ![i] = DictPop(event[i], "body")]
    /\ LET r == decode_metadata(event[i])
       IN  IF r.ok
           THEN /\ upload_metadata' = [upload_metadata EXCEPT ![i] =
                       IF module = "uploads"
                       THEN r.value
                       ELSE mark_canary(r.value, is_canary[i])]
                /\ pc' = [pc EXCEPT ![i] =
                       IF module = "uploads" THEN "canary" ELSE "descriptor"]
                /\ exc' = exc
           ELSE /\ Raise(i, r.exc)
                /\ upload_metadata' = upload_metadata
    /\ UNCHANGED <<config, call, request, now, stores, auth_token, shortid, ts_path, is_canary,
                   descriptor, s3_descriptor_key, put_url, result, attempts,
                   outcome>>

\* is_canary = is_canary_upload(event); uploads.py then marks the metadata
IsCanaryUpload(i, dice_roll) ==
    /\ pc[i] = "canary"
    /\ LET canary == is_canary_upload(event[i], dice_roll)
       IN  /\ is_canary' = [is_canary EXCEPT ![i] = canary]
           /\ upload_metadata' = [upload_metadata EXCEPT ![i] =
                  IF module = "uploads" THEN mark_canary(@, canary) ELSE @]
    /\ pc' = [pc EXCEPT ![i] =
           IF module = "uploads" THEN "descriptor" ELSE "metadata"]
    /\ UNCHANGED <<config, call, request, now, stores, event, auth_token, shortid, ts_path,
                   descriptor, effects>>

\* descriptor = {...}
build_descriptor(i) ==
    IF module = "uploads"
    THEN [gateway_headers |-> event[i]["headers"],
          shortid |-> shortid[i],
          source_ip |-> event[i]["source_ip"],
          upload_metadata |-> upload_metadata[i],
          event |-> event[i]]
    ELSE [shortid |-> shortid[i],
          upload_metadata |-> upload_metadata[i],
          event |-> event[i]]

\* a slip of line 172: the switch is not looked at
first_store_Ignore == "save_preferred"
\* uploaders.py 172-176: if FORCE_S3 the fallback is the first store written
first_store == IF FORCE_S3 THEN "save_s3" ELSE "save_preferred"

BuildDescriptor(i) ==
    /\ pc[i] = "descriptor"
    /\ IF module = "uploads" /\ "source_ip" \notin DOMAIN event[i]
       THEN /\ Raise(i, Exc("KeyError", "source_ip"))
            /\ descriptor' = descriptor
       ELSE /\ descriptor' = [descriptor EXCEPT ![i] = build_descriptor(i)]
            /\ pc' = [pc EXCEPT ![i] = first_store]
            /\ exc' = exc
    /\ UNCHANGED <<config, call, request, now, stores, event, auth_token, shortid, ts_path,
                   is_canary, upload_metadata, s3_descriptor_key, put_url,
                   result, attempts, outcome>>

\* ------------------------------------------------------------ the stores
\* How a call to a store can end: it returns; it raises with nothing
\* written; it raises after the store has made the write durable (the
\* reply is lost or times out).
WriteOutcomes == {"ok", "error", "committed_error"}
Committed(o) == o \in {"ok", "committed_error"}
Raised(o) == o \in {"error", "committed_error"}

\* the value Redis holds after upload_descriptor_cache.set(shortid, body)
RedisValue(d) == json_dumps(d)
\* the uploads_descriptor row of Descriptor(shortid=..., descriptor=...)
PostgresRow(d, t) == [shortid |-> d["shortid"], descriptor |-> d, created |-> t]

\* a slip of the except clause: the failure is logged and nothing else
AfterPreferred_Ignore(o) == "presign"
\* a slip of the try/except: the fallback write is made in every case
AfterPreferred_Both(o) == "save_s3"
\* what follows the preferred write: line 139/177 catches every Exception
AfterPreferred(o) == IF Raised(o) THEN "save_s3" ELSE "presign"

\* uploads.py: save_descriptor_to_redis(descriptor) inside try/except
SaveDescriptorToRedis(i, o) ==
    /\ module = "uploads"
    /\ pc[i] = "save_preferred"
    /\ preferred' = IF Committed(o)
                    THEN DictSet(preferred, descriptor[i]["shortid"],
                                 RedisValue(descriptor[i]))
                    ELSE preferred
    /\ attempts' = [attempts EXCEPT ![i].preferred = @ + 1]
    /\ outcome' = [outcome EXCEPT ![i].preferred = o]
    /\ pc' = [pc EXCEPT ![i] = AfterPreferred(o)]
    /\ UNCHANGED <<config, call, request, now, s3, locals, s3_descriptor_key, put_url, result,
                   exc>>

\* uploaders.py: save_descriptor_to_postgres(descriptor) inside try/except;
\* shortid is the primary key, so a second row with it is refused
SaveDescriptorToPostgres(i, o) ==
    /\ module = "uploaders"
    /\ pc[i] = "save_preferred"
    /\ descriptor[i]["shortid"] \in DOMAIN preferred => o = "error"
    /\ preferred' = IF Committed(o)
                    THEN DictSet(preferred, descriptor[i]["shortid"],
                                 PostgresRow(descriptor[i], now))
                    ELSE preferred
    /\ attempts' = [attempts EXCEPT ![i].preferred = @ + 1]
    /\ outcome' = [outcome EXCEPT ![i].preferred = o]
    /\ pc' = [pc EXCEPT ![i] = AfterPreferred(o)]
    /\ UNCHANGED <<config, call, request, now, s3, locals, s3_descriptor_key, put_url, result,
                   exc>>

\* the bucket and key of save_descriptor_to_s3
descriptor_bucket == IF module = "uploads" THEN RAW_UPLOADS_BUCKET ELSE DESCRIPTORS_BUCKET
descriptor_key(i) ==
    IF module = "uploads"
    THEN DescriptorKeyRaw(ts_path[i], descriptor[i]["shortid"])
    ELSE DescriptorKeyFlat(descriptor[i]["shortid"])
\* Body=json.dumps(descriptor).encode("utf8")
descriptor_body(d) == utf8(json_dumps(d))

\* a slip: the fallback's exception is caught and the handler goes on
AfterS3_Swallow(o) == "presign"
\* a slip: the fallback write is tried again when it raises
AfterS3_Retry(o) == IF Raised(o) THEN "save_s3" ELSE "presign"
\* what follows the fallback write: nothing catches its exception
AfterS3(o) == IF Raised(o) THEN "raised" ELSE "presign"
S3Error == Exc("botocore.ClientError", "put_object")
SignError == Exc("botocore.NoCredentialsError", "generate_presigned_url")

\* save_descriptor_to_s3(descriptor[, ts_path]): a failure leaves the handler
SaveDescriptorToS3(i, o) ==
    /\ pc[i] = "save_s3"
    /\ LET key == descriptor_key(i)
       IN  /\ s3_descriptor_key' = [s3_descriptor_key EXCEPT ![i] = key]
           /\ s3' = IF Committed(o)
                    THEN DictSet(s3, <<descriptor_bucket, key>>,
                                 descriptor_body(descriptor[i]))
                    ELSE s3
    /\ attempts' = [attempts EXCEPT ![i].s3 = @ + 1]
    /\ outcome' = [outcome EXCEPT ![i].s3 = o]
    /\ pc' = [pc EXCEPT ![i] = AfterS3(o)]
    /\ exc' = [exc EXCEPT ![i] = IF Raised(o) THEN S3Error ELSE @]
    /\ UNCHANGED <<config, call, request, now, preferred, locals, put_url, result>>

\* a slip of line 146: the clock is read again for the payload key
powerlog_ts_Now(i) == get_timestamp(now)
\* the timestamp of the payload key: uploads.py reuses ts_path (line 146),
\* uploaders.py reads the clock in get_presigned_put_url (line 139)
powerlog_ts(i) == IF module = "uploads" THEN ts_path[i] ELSE get_timestamp(now)

\* S3.generate_presigned_url(...) for the payload key; signed is whether the
\* signer could sign
GetPresignedPutUrl(i, signed) ==
    /\ pc[i] = "presign"
    /\ attempts' = [attempts EXCEPT ![i].presign = @ + 1]
    /\ IF signed
       THEN /\ put_url' = [put_url EXCEPT ![i] =
                   presigned_url(s3_powerlog_key(powerlog_ts(i), shortid[i],
                                                 is_canary[i]))]
            /\ pc' = [pc EXCEPT ![i] = "return"]
            /\ exc' = exc
       ELSE /\ Raise(i, SignError)
            /\ put_url' = put_url
    /\ UNCHANGED <<config, call, request, now, stores, locals, s3_descriptor_key, result,
                   outcome>>

\* return {"put_url": ..., "shortid": ..., "url": ...}
\* a slip: the response tells where the descriptor went
handler_result_Store(i) ==
    [put_url |-> put_url[i], shortid |-> shortid[i],
     url |-> get_upload_url(shortid[i]),
     descriptor_key |-> s3_descriptor_key[i]]
\* the dict of lines 183-187
handler_result(i) ==
    [put_url |-> put_url[i], shortid |-> shortid[i],
     url |-> get_upload_url(shortid[i])]

Return(i) ==
    /\ pc[i] = "return"
    /\ result' = [result EXCEPT ![i] = handler_result(i)]
    /\ pc' = [pc EXCEPT ![i] = "done"]
    /\ UNCHANGED <<config, call, request, now, stores, locals, s3_descriptor_key, put_url, exc,
                   attempts, outcome>>

Next ==
    \/ Tick
    \/ \E i \in Invocations, ev \in Events : Invoke(i, ev)
    \/ \E i \in Invocations : GetAuthToken(i)
    \/ \E i \in Invocations, id \in Ids : GetShortid(i, id)
    \/ \E i \in Invocations : GetTimestamp(i)
    \/ \E i \in Invocations : GetUploadMetadata(i)
    \/ \E i \in Invocations, dice_roll \in DiceRolls : IsCanaryUpload(i, dice_roll)
    \/ \E i \in Invocations : BuildDescriptor(i)
    \/ \E i \in Invocations, o \in WriteOutcomes : SaveDescriptorToRedis(i, o)
    \/ \E i \in Invocations, o \in WriteOutcomes : SaveDescriptorToPostgres(i, o)
    \/ \E i \in Invocations, o \in WriteOutcomes : SaveDescriptorToS3(i, o)
    \/ \E i \in Invocations, signed \in BOOLEAN : GetPresignedPutUrl(i, signed)
    \/ \E i \in Invocations : Return(i)

Spec == Init /\ [][Next]_vars

\* ------------------------------------------- the helpers called on their own
\* One helper is called once, from the state the module is loaded in.
handler_state == <<config, now, stores, pc, request, locals, effects>>

\* is_canary_upload(ev) with random.randrange(0, 100) returning dice_roll
CallIsCanaryUpload(ev, dice_roll) ==
    /\ call = NoCall
    /\ call' = [fn |-> "is_canary_upload", event |-> ev,
                dice_roll |-> dice_roll, draws |-> dice_rolls_drawn(ev),
                ret |-> is_canary_upload(ev, dice_roll)]
    /\ UNCHANGED handler_state

\* get_auth_token(headers)
CallGetAuthToken(headers) ==
    /\ call = NoCall
    /\ call' = [fn |-> "get_auth_token", headers |-> headers,
                ret |-> get_auth_token(headers)]
    /\ UNCHANGED handler_state

NextCalls ==
    \/ \E ev \in CanaryEvents, dice_roll \in DiceRange :
           CallIsCanaryUpload(ev, dice_roll)
    \/ \E headers \in HeaderDicts : CallGetAuthToken(headers)

SpecCalls == Init /\ [][NextCalls]_vars

\* ===================================================== properties checked
\* the descriptor part of what the preferred store holds under a short id
PreferredDescriptor(v) == IF module = "uploads" THEN v.json ELSE v.descriptor

Built(i) == descriptor[i] # NoDescriptor
\* invocation i's descriptor is what the preferred store holds under its id
InPreferred(i) ==
    /\ Built(i)
    /\ shortid[i] \in DOMAIN preferred
    /\ PreferredDescriptor(preferred[shortid[i]]) = descriptor[i]
\* invocation i's descriptor is what S3 holds under its descriptor key
InFallback(i) ==
    /\ Built(i)
    /\ <<descriptor_bucket, descriptor_key(i)>> \in DOMAIN s3
    /\ s3[<<descriptor_bucket, descriptor_key(i)>>] = utf8(json_dumps(descriptor[i]))

Issued(i) == pc[i] \in {"return", "done"}
Terminated(i) == pc[i] \in {"done", "raised"}
AuthOk(ev) == get_auth_token(ev["headers"]).ok
\* the body is base64 of UTF-8 JSON text whose value is an object
BodyOk(ev) ==
    /\ "body" \in DOMAIN ev
    /\ ev["body"].b64 /\ ev["body"].utf8 /\ ev["body"].json
    /\ ev["body"].value.type = "dict"
Valid(ev) == AuthOk(ev) /\ BodyOk(ev)
Success(i) ==
    /\ pc[i] = "done"
    /\ result[i] = [put_url |-> put_url[i], shortid |-> shortid[i],
                    url |-> <<"https://hsreplay.net/uploads/upload/", ToString(shortid[i]), "/">>]
    /\ put_url[i].scheme = "https"

\* C1 (as claimed): the descriptor of a request is never in both stores, and
\* once the URL is issued or the response returned it is in exactly one.
C1_ExactlyOneStore ==
    \A i \in Invocations :
        /\ ~(InPreferred(i) /\ InFallback(i))
        /\ Issued(i) => (InPreferred(i) # InFallback(i))

\* C2 (as claimed): when the preferred write of a valid request fails, the
\* handler ends with the descriptor in the fallback store, no record under
\* its short id in the preferred store, and a success response.
C2_FallbackThenSuccess ==
    \A i \in Invocations :
        (Terminated(i) /\ Valid(request[i]) /\ Raised(outcome[i].preferred)) =>
            /\ InFallback(i)
            /\ shortid[i] \notin DOMAIN preferred
            /\ Success(i)

\* C2 (amended): when the preferred write raises, the handler makes exactly
\* one fallback write; a fallback write that returns has put the bytes of
\* json.dumps(descriptor) under the request's descriptor key and left the
\* preferred store alone; a preferred write that raised without committing
\* left the preferred store unchanged; and the handler then ends either with
\* the success response or with the fallback's or the signer's exception.
C2_Step(i) ==
    /\ (pc[i] = "save_preferred" /\ outcome'[i].preferred = "error") =>
           preferred' = preferred
    /\ (pc[i] = "save_s3" /\ pc'[i] = "presign") =>
           /\ <<descriptor_bucket, descriptor_key(i)>> \in DOMAIN s3'
           /\ s3'[<<descriptor_bucket, descriptor_key(i)>>] =
                   utf8(json_dumps(descriptor[i]))
           /\ preferred' = preferred
C2_After(i) ==
    Raised(outcome[i].preferred) =>
        /\ pc[i] \in {"presign", "return", "done"} =>
               attempts[i].s3 = 1 /\ outcome[i].s3 = "ok"
        /\ pc[i] = "done" => Success(i)
        /\ pc[i] = "raised" =>
               \/ Raised(outcome[i].s3) /\ exc[i] = S3Error
               \/ outcome[i].s3 = "ok" /\ exc[i] = SignError
C2_FallbackWritten ==
    [][\A i \in Invocations : C2_Step(i) /\ C2_After(i)']_vars
C2_Witness ==
    \E i \in Invocations :
        /\ outcome[i].preferred = "error"
        /\ InFallback(i)
        /\ Success(i)

\* C3: when the preferred write succeeds, the store holds the descriptor
\* under its short id right after the write, and the request never writes to
\* the fallback store.
C3_Step(i) ==
    (pc[i] = "save_preferred" /\ outcome'[i].preferred = "ok") =>
        /\ shortid[i] \in DOMAIN preferred'
        /\ PreferredDescriptor(preferred'[shortid[i]]) = descriptor[i]
        /\ s3' = s3
C3_After(i) ==
    outcome[i].preferred = "ok" =>
        /\ attempts[i].s3 = 0
        /\ s3_descriptor_key[i] = NoKey
        /\ pc[i] \in {"presign", "return", "done", "raised"}
C3_PreferredOnly ==
    [][\A i \in Invocations : C3_Step(i) /\ C3_After(i)']_vars
C3_Witness ==
    \E i \in Invocations :
        /\ outcome[i].preferred = "ok"
        /\ InPreferred(i)
        /\ Success(i)
        /\ DOMAIN s3 = {}

\* C4 (as claimed): a preferred write that committed and then raised is
\* followed by no fallback write.
C4_NoFallbackAfterCommit ==
    \A i \in Invocations :
        outcome[i].preferred = "committed_error" => attempts[i].s3 = 0

\* C5: a request whose authorization header is missing or malformed, or
\* whose body is no JSON object, never gets past validation: no call to
\* either store, no call to the signer, no URL and no response, and when it
\* has ended it has ended by raising the validator's exception.
C5_RejectedNoSideEffects ==
    \A i \in Invocations :
        (pc[i] # "idle" /\ ~Valid(request[i])) =>
            /\ attempts[i] = NoAttempts
            /\ s3_descriptor_key[i] = NoKey
            /\ put_url[i] = NoUrl
            /\ result[i] = NoResult
            /\ ~Built(i)
            /\ pc[i] \in {"auth", "shortid", "timestamp", "canary", "metadata",
                          "raised"}
            /\ pc[i] = "raised" =>
                   exc[i] = IF AuthOk(request[i])
                            THEN decode_metadata(request[i]).exc
                            ELSE get_auth_token(request[i]["headers"]).exc
            /\ (\A j \in Invocations : j # i => pc[j] = "idle") =>
                   preferred = EmptyDict /\ s3 = EmptyDict
C5_Witness ==
    \E i, j \in Invocations :
        /\ pc[i] = "raised" /\ ~AuthOk(request[i])
        /\ pc[j] = "raised" /\ AuthOk(request[j]) /\ ~BodyOk(request[j])

\* C6 (as claimed): a body that is not JSON, or not a JSON object, makes the
\* handler return {"error": <message>}; {"error": "Invalid JSON"} for a body
\* that is not JSON.
C6_ErrorResponse ==
    \A i \in Invocations :
        (Terminated(i) /\ AuthOk(request[i]) /\ ~BodyOk(request[i])) =>
            /\ pc[i] = "done"
            /\ "error" \in DOMAIN result[i]
            /\ ~request[i]["body"].json => result[i] = [error |-> "Invalid JSON"]

\* C7: a fallback write that raises ends the handler with that exception:
\* the signer is never called, no URL is issued, no response is returned.
C7_FallbackFailureFatal ==
    \A i \in Invocations :
        Raised(outcome[i].s3) =>
            /\ pc[i] = "raised"
            /\ exc[i] = S3Error
            /\ attempts[i].presign = 0
            /\ put_url[i] = NoUrl
            /\ result[i] = NoResult
            /\ FORCE_S3 \/ Raised(outcome[i].preferred)
C7_Witness ==
    \E i, j \in Invocations :
        /\ outcome[i].s3 = "error" /\ pc[i] = "raised"
        /\ outcome[j].s3 = "committed_error" /\ pc[j] = "raised"

\* the timestamp paths the clock has shown so far
PastTimestamps == {ToString(t \div 2) : t \in 0..now}

\* C8: the presigned key is raw/<timestamp_path>/<short_id>.<suffix> with the
\* short id of the descriptor and of the response, and the suffix is
\* canary.log exactly when is_canary, power.log otherwise.
C8_PayloadKey ==
    \A i \in Invocations :
        put_url[i] # NoUrl =>
            /\ \E ts \in PastTimestamps :
                   /\ module = "uploads" => ts = ts_path[i]
                   /\ put_url[i].Key =
                          <<"raw", "/", ts, "/", ToString(shortid[i]), ".",
                            IF is_canary[i] THEN "canary" ELSE "power", ".", "log">>
            /\ put_url[i].Bucket = RAW_UPLOADS_BUCKET
            /\ descriptor[i]["shortid"] = shortid[i]
            /\ pc[i] = "done" => result[i]["shortid"] = shortid[i]
C8_Witness ==
    \E i, j \in Invocations :
        /\ Success(i) /\ is_canary[i]
        /\ Success(j) /\ ~is_canary[j]

\* the timestamp path in a key, if it has one
KeyTimestamp(k) == IF k[1] = "raw" THEN k[3] ELSE NoTimestamp

\* C9 (as claimed): the fallback descriptor key and the presigned key of one
\* request embed the same timestamp path.
C9_SameTimestamp ==
    \A i \in Invocations :
        (s3_descriptor_key[i] # NoKey /\ put_url[i] # NoUrl) =>
            /\ KeyTimestamp(s3_descriptor_key[i]) # NoTimestamp
            /\ KeyTimestamp(s3_descriptor_key[i]) = KeyTimestamp(put_url[i].Key)

\* C9 (amended): in uploads.py both keys embed ts_path, read once before
\* the writes, whatever the clock shows later; in uploaders.py the fallback
\* key descriptors/<short_id>.json embeds no timestamp path and the
\* presigned key takes the minute of the clock at issuance.
C9_TimestampPerModule ==
    \A i \in Invocations :
        (s3_descriptor_key[i] # NoKey /\ put_url[i] # NoUrl) =>
            IF module = "uploads"
            THEN /\ KeyTimestamp(s3_descriptor_key[i]) = ts_path[i]
                 /\ KeyTimestamp(put_url[i].Key) = ts_path[i]
                 /\ ts_path[i] # NoTimestamp
            ELSE /\ KeyTimestamp(s3_descriptor_key[i]) = NoTimestamp
                 /\ KeyTimestamp(put_url[i].Key) \in PastTimestamps
                 /\ ts_path[i] = NoTimestamp
C9_Witness ==
    \E i \in Invocations :
        /\ module = "uploads"
        /\ s3_descriptor_key[i] # NoKey
        /\ put_url[i] # NoUrl
        /\ ts_path[i] = "0"
        /\ now \div 2 = 1

\* k ends with the pieces suf
EndsWith(k, suf) ==
    /\ Len(k) >= Len(suf)
    /\ SubSeq(k, Len(k) - Len(suf) + 1, Len(k)) = suf

\* C10: a fallback write goes to raw/<timestamp_path>/<short_id>.descriptor.json
\* (uploads.py) or to descriptors/<short_id>.json in the descriptors bucket
\* (uploaders.py); that key is the payload key of no request and ends in
\* neither power.log nor canary.log.
C10_DescriptorKey ==
    \A i \in Invocations :
        s3_descriptor_key[i] # NoKey =>
            /\ IF module = "uploads"
               THEN s3_descriptor_key[i] =
                        <<"raw", "/", ts_path[i], "/", ToString(shortid[i]), ".",
                          "descriptor", ".", "json">>
               ELSE s3_descriptor_key[i] =
                        <<"descriptors", "/", ToString(shortid[i]), ".", "json">>
            /\ \A j \in Invocations :
                   put_url[j] # NoUrl => put_url[j].Key # s3_descriptor_key[i]
            /\ ~EndsWith(s3_descriptor_key[i], <<"power", ".", "log">>)
            /\ ~EndsWith(s3_descriptor_key[i], <<"canary", ".", "log">>)
            /\ \A bk \in DOMAIN s3 :
                   /\ ~EndsWith(bk[2], <<"power", ".", "log">>)
                   /\ ~EndsWith(bk[2], <<"canary", ".", "log">>)
C10_Witness ==
    \E i, j \in Invocations :
        /\ i # j
        /\ InFallback(i)
        /\ Success(j)
        /\ shortid[i] = shortid[j]
        /\ module = "uploads" => ts_path[i] = ts_path[j]

\* C11: is_canary_upload returns TRUE for every event whose query has a
\* canary parameter, without looking at a draw; for every other event it
\* draws once from 0..99 and returns TRUE exactly when the draw is below 25.
C11_CanaryDecision ==
    call.fn = "is_canary_upload" =>
        LET ev == call.event
            opted == /\ "query" \in DOMAIN ev
                     /\ "canary" \in DOMAIN ev["query"]
        IN  IF opted
            THEN call.ret = TRUE /\ call.draws = 0
            ELSE /\ call.draws = 1
                 /\ call.dice_roll \in 0..99
                 /\ call.ret <=> (call.dice_roll < 25)
C11_Witness ==
    /\ call.fn = "is_canary_upload"
    /\ "query" \in DOMAIN call.event
    /\ "canary" \notin DOMAIN call.event["query"]
    /\ call.dice_roll = 25
    /\ call.ret = FALSE

\* what made an invocation fail, from its inputs and the calls it made
FailureOf(i) ==
    IF ~AuthOk(request[i]) THEN "auth"
    ELSE IF ~BodyOk(request[i]) THEN "validation"
    ELSE IF Raised(outcome[i].s3) THEN "persistence"
    ELSE "presign"

\* C12 (as claimed): a failure that reaches the caller has a kind of its
\* own: never the generic Exception, and failures of two different causes
\* never have the same kind.
C12_DistinctErrorKinds ==
    \A i \in Invocations :
        pc[i] = "raised" =>
            /\ exc[i].type # "Exception"
            /\ \A j \in Invocations :
                   (pc[j] = "raised" /\ FailureOf(i) # FailureOf(j)) =>
                       exc[i].type # exc[j].type

\* C13: with FORCE_S3 on, no invocation calls the preferred store, the
\* preferred store stays as it was, and an invocation that gets past the
\* descriptor has made its one write to the fallback.
C13_ForceFallback ==
    FORCE_S3 =>
        /\ preferred = EmptyDict
        /\ \A i \in Invocations :
               /\ attempts[i].preferred = 0
               /\ outcome[i].preferred = ""
               /\ pc[i] # "save_preferred"
               /\ pc[i] \in {"presign", "return", "done"} =>
                      attempts[i].s3 = 1 /\ outcome[i].s3 = "ok"
C13_Witness ==
    /\ FORCE_S3
    /\ \E i \in Invocations : Success(i) /\ InFallback(i)

\* the positions of the headers named authorization, whatever the case
AuthorizationAt(headers) ==
    {k \in 1..Len(headers) :
        headers[k][1] \in {"authorization", "Authorization", "AUTHORIZATION"}}
LastOf(S) == CHOOSE k \in S : \A m \in S : m <= k

\* C14: get_auth_token raises when no header is named authorization in any
\* case, or when that header's value (the last such header's, when two names
\* differ only in case) does not split on whitespace into two components;
\* otherwise it returns the second component.
C14_AuthToken ==
    call.fn = "get_auth_token" =>
        LET at == AuthorizationAt(call.headers)
        IN  IF at = {}
            THEN /\ ~call.ret.ok
                 /\ call.ret.exc.msg = "The Authorization Header is required."
            ELSE LET v == call.headers[LastOf(at)][2]
                 IN  /\ call.ret.ok <=> (Len(Split(v)) = 2)
                     /\ call.ret.ok => call.ret.value = Split(v)[2]
                     /\ ~call.ret.ok => call.ret.exc.msg =
                            "Authorization header must have a scheme and a token."
                     /\ v = <<" ", "T", "\t", "F", "\n">> =>
                            call.ret.ok /\ call.ret.value = <<"F">>
                     /\ v = <<"T", " ", " ", "F">> =>
                            call.ret.ok /\ call.ret.value = <<"F">>
                     /\ v \in {<<>>, <<"T", "o", "k", "e", "n">>,
                               <<"T", " ", "F", " ", "G">>} => ~call.ret.ok
C14_Witness ==
    /\ call.fn = "get_auth_token"
    /\ Len(call.headers) = 2
    /\ call.headers[1][1] = "X-Forwarded-For"
    /\ call.headers[2] = <<"AUTHORIZATION", <<" ", "T", "\t", "F", "\n">> >>
    /\ call.ret.ok
    /\ call.ret.value = <<"F">>

\* C15: within one invocation the preferred store, the fallback store and
\* the signer are each called at most once, on every path.
C15_NoRetry ==
    \A i \in Invocations :
        /\ attempts[i].preferred <= 1
        /\ attempts[i].s3 <= 1
        /\ attempts[i].presign <= 1
        /\ Raised(outcome[i].s3) => pc[i] = "raised"
        /\ (pc[i] = "raised" /\ attempts[i].presign = 1) => put_url[i] = NoUrl
C15_Witness ==
    \E i, j \in Invocations :
        /\ pc[i] = "raised"
        /\ attempts[i] = [preferred |-> 1, s3 |-> 1, presign |-> 1]
        /\ pc[j] = "raised"
        /\ attempts[j] = [preferred |-> 1, s3 |-> 1, presign |-> 0]

\* C18: the upload_metadata of the descriptor is the object the client sent
\* with the field canary = TRUE put in when the request is a canary, and is
\* the object the client sent, as it was, when it is not.
C18_MetadataCanary ==
    \A i \in Invocations :
        Built(i) =>
            LET client == request[i]["body"].value
                stored == descriptor[i]["upload_metadata"]
            IN  /\ stored = upload_metadata[i]
                /\ IF is_canary[i]
                   THEN /\ stored.type = "dict"
                        /\ DOMAIN stored.items = DOMAIN client.items \cup {"canary"}
                        /\ stored.items["canary"] = TRUE
                        /\ \A k \in DOMAIN client.items \ {"canary"} :
                               stored.items[k] = client.items[k]
                   ELSE stored = client
C18_Witness ==
    \E i, j \in Invocations :
        /\ Success(i) /\ is_canary[i]
        /\ descriptor[i]["upload_metadata"].items = [build |-> 1, canary |-> TRUE]
        /\ Success(j) /\ ~is_canary[j]
        /\ DOMAIN descriptor[j]["upload_metadata"].items = {}

\* the event of a stored descriptor, from either store's value
StoredEvents ==
    {PreferredDescriptor(preferred[k])["event"] : k \in DOMAIN preferred}
    \cup {s3[k].utf8.json["event"] : k \in DOMAIN s3}

\* C20: the body is popped off the caller's event before the descriptor is
\* built: the descriptor's event is the inbound event without its body, it
\* is the caller's event as the handler leaves it, and no stored descriptor
\* has an event with a body.
C20_EventWithoutBody ==
    /\ \A i \in Invocations :
           Built(i) =>
               /\ "body" \in DOMAIN request[i]
               /\ descriptor[i]["event"] =
                      [k \in DOMAIN request[i] \ {"body"} |-> request[i][k]]
               /\ event[i] = descriptor[i]["event"]
    /\ \A e \in StoredEvents : "body" \notin DOMAIN e
C20_Witness ==
    \E i \in Invocations :
        /\ Success(i)
        /\ InPreferred(i)
        /\ event[i] = [headers |-> << <<"authorization", Chars_TokenFoo>> >>,
                       source_ip |-> "127.0.0.1"]
        /\ PreferredDescriptor(preferred[shortid[i]])["event"] = event[i]

\* where invocation i's descriptor is, told from i's own calls alone
OwnPlacement(i) ==
    /\ InPreferred(i) <=> (attempts[i].preferred = 1 /\ Committed(outcome[i].preferred))
    /\ InFallback(i) <=> (attempts[i].s3 = 1 /\ Committed(outcome[i].s3))
\* i's keys and response, told from i's own id, draw and timestamps
OwnKeysAndResponse(i) ==
    /\ attempts[i].s3 = 1 =>
           s3_descriptor_key[i] =
               IF module = "uploads"
               THEN <<"raw", "/", ts_path[i], "/", ToString(shortid[i]), ".",
                      "descriptor", ".", "json">>
               ELSE <<"descriptors", "/", ToString(shortid[i]), ".", "json">>
    /\ Issued(i) =>
           /\ put_url[i].Key[5] = ToString(shortid[i])
           /\ put_url[i].Key[7] = IF is_canary[i] THEN "canary" ELSE "power"
    /\ pc[i] = "done" => result[i].shortid = shortid[i] /\ result[i].put_url = put_url[i]
\* no other invocation has drawn i's short id
IdOfItsOwn(i) == \A j \in Invocations \ {i} : shortid[j] # shortid[i]

\* C16 (as claimed): under every interleaving each invocation's descriptor
\* is in the stores its own writes put it in, whatever the others do.
C16_Independent ==
    \A i \in Invocations : Built(i) => OwnPlacement(i) /\ OwnKeysAndResponse(i)

\* C16 (amended): an invocation whose short id no concurrent invocation has
\* drawn ends as if it ran alone: its descriptor is in exactly the stores
\* its own writes committed to, under its own keys, with its own response.
C16_IndependentDistinctIds ==
    \A i \in Invocations :
        Built(i) /\ IdOfItsOwn(i) => OwnPlacement(i) /\ OwnKeysAndResponse(i)
C16_Witness ==
    \E i, j \in Invocations :
        /\ i # j
        /\ shortid[i] # shortid[j]
        /\ Success(i) /\ Success(j)
        /\ InFallback(i) /\ InFallback(j)
        /\ ~InPreferred(i)

\* the short id of the descriptor a store holds
PreferredShortid(v) == PreferredDescriptor(v)["shortid"]
S3Shortid(v) == v.utf8.json["shortid"]
\* invocation i makes its preferred / fallback write in this step
WritesPreferred(i) == pc[i] = "save_preferred" /\ pc'[i] # "save_preferred"
WritesS3(i) == pc[i] = "save_s3" /\ pc'[i] # "save_s3"

\* C17 (as claimed): what a store holds is never changed or removed by a
\* later step, a later request with the same short id included.
C17_Kept ==
    /\ \A k \in DOMAIN preferred : k \in DOMAIN preferred' /\ preferred'[k] = preferred[k]
    /\ \A k \in DOMAIN s3 : k \in DOMAIN s3' /\ s3'[k] = s3[k]
C17_NeverOverwritten == [][C17_Kept]_vars

\* C17 (amended): nothing is ever removed from a store; a Postgres row is
\* never replaced; a Redis value or an S3 object is replaced only by the
\* write of a request that carries the same short id.
C17_KeptFromOtherIds ==
    /\ \A k \in DOMAIN preferred :
           /\ k \in DOMAIN preferred'
           /\ preferred'[k] # preferred[k] =>
                  /\ module = "uploads"
                  /\ \E i \in Invocations :
                         WritesPreferred(i) /\ shortid[i] = PreferredShortid(preferred[k])
    /\ \A k \in DOMAIN s3 :
           /\ k \in DOMAIN s3'
           /\ s3'[k] # s3[k] =>
                  \E i \in Invocations : WritesS3(i) /\ shortid[i] = S3Shortid(s3[k])
C17_OverwrittenBySameIdOnly == [][C17_KeptFromOtherIds]_vars
C17_Witness ==
    \E i, j \in Invocations :
        /\ i # j
        /\ shortid[i] # shortid[j]
        /\ pc[i] = "done" /\ pc[j] = "done"
        /\ InPreferred(i)
        /\ InPreferred(j) \/ InFallback(j)

\* C19: two runs on the same request with the same short id, canary
\* decision and payload timestamp, one whose preferred write succeeds and
\* one whose preferred write fails and whose fallback succeeds, return the
\* same response with the same payload key.
C19_SameResponse ==
    \A i, j \in Invocations :
        ( /\ pc[i] = "done" /\ pc[j] = "done"
          /\ request[i] = request[j]
          /\ shortid[i] = shortid[j]
          /\ is_canary[i] = is_canary[j]
          /\ KeyTimestamp(put_url[i].Key) = KeyTimestamp(put_url[j].Key)
          /\ outcome[i].preferred = "ok"
          /\ Raised(outcome[j].preferred) /\ outcome[j].s3 = "ok" )
        => /\ result[i] = result[j]
           /\ put_url[i].Key = put_url[j].Key
           /\ DOMAIN result[i] = {"put_url", "shortid", "url"}
C19_Witness ==
    \E i, j \in Invocations :
        /\ Success(i) /\ Success(j)
        /\ request[i] = request[j]
        /\ shortid[i] = shortid[j]
        /\ is_canary[i] = is_canary[j]
        /\ KeyTimestamp(put_url[i].Key) = KeyTimestamp(put_url[j].Key)
        /\ outcome[i].preferred = "ok" /\ attempts[i].s3 = 0
        /\ Raised(outcome[j].preferred) /\ outcome[j].s3 = "ok"
        /\ result[i] = result[j]

====
